---- MODULE Spec2Model ----
(***************************************************************************)
(* Model of src/utils.ts: the base64 byte/text codec (encode, decode),     *)
(* the PCM sample packer (createBlob) and the PCM unpacker and channel     *)
(* de-interleaver (decodeAudioData).                                       *)
(*                                                                         *)
(* Representation.                                                         *)
(*  - A byte sequence (Uint8Array) is a sequence over 0..255.              *)
(*  - A string is a sequence of code units.  A binary string (the argument *)
(*    of btoa, the result of atob) holds char codes 0..255.  A base64 text *)
(*    holds symbol codes: 0..63 is the index in the RFC 4648 alphabet      *)
(*    "A-Za-z0-9+/", Pad is "=", Bang is "!" (any non-alphabet character), *)
(*    Space is an ASCII whitespace character.                              *)
(*  - A JS number is a triple: <<"fin", num, den>> is the value num / den  *)
(*    (den > 0, not normalised), and <<"nan", 0, 1>>, <<"inf", 1, 1>>,     *)
(*    <<"inf", -1, 1>> are NaN, +Infinity and -Infinity.  Input samples    *)
(*    have den = FloatDen = 4 * 32768, a quarter of one 16-bit step.       *)
(*  - Typed arrays use the platform byte order, little-endian on every     *)
(*    platform that runs this browser code.                                *)
(***************************************************************************)
EXTENDS Integers, Sequences, FiniteSets, TLC

(* ---------------------------- bounds ---------------------------------- *)
MaxEncodeLen == 4
MaxTextLen == 4
MaxSamples == 2
MaxBytes == 6
MaxChannels == 3

EncodeByteVals == {0, 1, 165, 255}
AudioByteVals == {0, 128, 255}
ChannelArgs == (-1) .. MaxChannels
ByteOffsets == {0, 1}

(* --------------------------- helpers ---------------------------------- *)
SeqsUpTo(S, n) == UNION {[1 .. k -> S] : k \in 0 .. n}

\* Tail of s after its first k elements.
Drop(s, k) == SubSeq(s, k + 1, Len(s))

(* ------------------------- base64 alphabet ---------------------------- *)
Pad == 64
Bang == 65
Space == 66
Alphabet == 0 .. 63
TextVals == {0, 16, 63, Pad, Bang, Space}

(* btoa: standard base64 with padding of a binary string (char codes      *)
(* 0..255; every char code built by encode is in range, so btoa never     *)
(* throws here).                                                          *)
RECURSIVE btoa(_)
btoa(binary) ==
  IF Len(binary) = 0 THEN << >>
  ELSE IF Len(binary) = 1 THEN
    << binary[1] \div 4, (binary[1] % 4) * 16, Pad, Pad >>
  ELSE IF Len(binary) = 2 THEN
    << binary[1] \div 4,
       (binary[1] % 4) * 16 + binary[2] \div 16,
       (binary[2] % 16) * 4,
       Pad >>
  ELSE
    << binary[1] \div 4,
       (binary[1] % 4) * 16 + binary[2] \div 16,
       (binary[2] % 16) * 4 + binary[3] \div 64,
       binary[3] % 64 >> \o btoa(Drop(binary, 3))

(* atob: the forgiving-base64 decode of the HTML standard.                *)
StripWhitespace(t) == SelectSeq(t, LAMBDA c : c # Space)

StripPadding(t) ==
  IF Len(t) % 4 = 0 /\ Len(t) > 0
  THEN IF t[Len(t)] = Pad
       THEN IF t[Len(t) - 1] = Pad
            THEN SubSeq(t, 1, Len(t) - 2)
            ELSE SubSeq(t, 1, Len(t) - 1)
       ELSE t
  ELSE t

RECURSIVE DecodeSymbols(_)
DecodeSymbols(t) ==
  IF Len(t) < 2 THEN << >>
  ELSE IF Len(t) = 2 THEN
    << t[1] * 4 + t[2] \div 16 >>
  ELSE IF Len(t) = 3 THEN
    << t[1] * 4 + t[2] \div 16,
       (t[2] % 16) * 16 + t[3] \div 4 >>
  ELSE
    << t[1] * 4 + t[2] \div 16,
       (t[2] % 16) * 16 + t[3] \div 4,
       (t[3] % 4) * 64 + t[4] >> \o DecodeSymbols(Drop(t, 4))

\* The symbols atob decodes, after whitespace and padding removal.
atobBody(base64) == StripPadding(StripWhitespace(base64))

\* atob throws InvalidCharacterError exactly when this holds.
atobFails(base64) ==
  \/ Len(atobBody(base64)) % 4 = 1
  \/ \E k \in 1 .. Len(atobBody(base64)) : atobBody(base64)[k] \notin Alphabet

\* The binary string atob returns when it does not throw.
atob(base64) == DecodeSymbols(atobBody(base64))

(* ------------------------------ encode -------------------------------- *)
\* String.fromCharCode(b): the one-code-unit string with char code b.
fromCharCode(b) == << b % 65536 >>

RECURSIVE binaryOf(_, _)
binaryOf(bytes, i) ==
  IF i < Len(bytes)
  THEN fromCharCode(bytes[i + 1]) \o binaryOf(bytes, i + 1)
  ELSE << >>

RECURSIVE binaryOf_skipLast(_, _)
binaryOf_skipLast(bytes, i) ==
  IF i < Len(bytes) - 1
  THEN fromCharCode(bytes[i + 1]) \o binaryOf_skipLast(bytes, i + 1)
  ELSE << >>

\* A plausible slip in encode: the loop stops one byte early.
encode_skipLast(bytes) == btoa(binaryOf_skipLast(bytes, 0))

encode(bytes) == btoa(binaryOf(bytes, 0))

(* ------------------------------ decode -------------------------------- *)
\* bytes[i] = binaryString.charCodeAt(i), stored in a Uint8Array.
charCodesOf(binaryString) ==
  [k \in 1 .. Len(binaryString) |-> binaryString[k] % 256]

\* A call's result: either it threw, or it returned exactly one value.
Threw(e) == [threw |-> TRUE, error |-> e, returned |-> {}]
Returned(v) == [threw |-> FALSE, error |-> "", returned |-> {v}]
NoResult == [threw |-> FALSE, error |-> "", returned |-> {}]
ValueOf(r) == CHOOSE v \in r.returned : TRUE

\* A plausible slip in decode: the failure of atob is swallowed and an
\* empty byte sequence is returned.
decode_swallow(base64) ==
  IF atobFails(base64)
  THEN Returned(<< >>)
  ELSE Returned(charCodesOf(atob(base64)))

decode(base64) ==
  IF atobFails(base64)
  THEN Threw("InvalidCharacterError")
  ELSE Returned(charCodesOf(atob(base64)))

(* ------------------------------ numbers ------------------------------- *)
FloatDen == 4 * 32768
Fin(num, den) == << "fin", num, den >>
NaN == << "nan", 0, 1 >>
PosInf == << "inf", 1, 1 >>
NegInf == << "inf", -1, 1 >>
IsFin(x) == x[1] = "fin"
IsNaN(x) == x[1] = "nan"

\* The integer k as a number.
IntNum(k) == Fin(k, 1)

\* x * k and x / k for a positive integer k (exact).
Mul(x, k) ==
  IF ~IsFin(x) THEN x
  ELSE IF x[3] % k = 0 THEN Fin(x[2], x[3] \div k)
  ELSE Fin(x[2] * k, x[3])
Div(x, k) == IF IsFin(x) THEN Fin(x[2], x[3] * k) ELSE x

\* x < y for two numbers that are not NaN.
Less(x, y) ==
  IF IsFin(x) /\ IsFin(y)
  THEN IF x[3] = y[3] THEN x[2] < y[2] ELSE x[2] * y[3] < y[2] * x[3]
  ELSE IF IsFin(x) THEN y = PosInf
  ELSE IF IsFin(y) THEN x = NegInf
  ELSE x = NegInf /\ y = PosInf

\* Math.min and Math.max: NaN if either argument is NaN.
MathMin(x, y) ==
  IF IsNaN(x) \/ IsNaN(y) THEN NaN ELSE IF Less(y, x) THEN y ELSE x
MathMax(x, y) ==
  IF IsNaN(x) \/ IsNaN(y) THEN NaN ELSE IF Less(x, y) THEN y ELSE x

\* Truncation toward zero of a finite number.
Trunc(x) ==
  IF x[2] >= 0 THEN x[2] \div x[3] ELSE -((-x[2]) \div x[3])

IsInteger(x) == IsFin(x) /\ x[2] % x[3] = 0

\* The signed 16-bit integer congruent to n modulo 2^16.
Wrap16(n) == IF n % 65536 >= 32768 THEN (n % 65536) - 65536 ELSE n % 65536

\* ToInt16, the conversion of a store into an Int16Array: NaN and the
\* infinities become 0, a finite number is truncated and wrapped.
ToInt16(x) == IF IsFin(x) THEN Wrap16(Trunc(x)) ELSE 0

\* ToIndex, and the unsigned long conversion of an argument, for a finite
\* number >= 0: truncation.
ToIndex(x) == Trunc(x)

(* ----------------------------- createBlob ----------------------------- *)
\* A plausible slip: the clamp is missing, so the store wraps.
sampleToInt16_noClamp(x) == ToInt16(Mul(x, 32768))

\* Line 44, for one sample.
sampleToInt16(x) ==
  ToInt16(MathMax(IntNum(-32768), MathMin(IntNum(32767), Mul(x, 32768))))

\* A plausible slip: the bytes of one Int16 element, high byte first.
int16Bytes_bigEndian(v) == << (v % 65536) \div 256, (v % 65536) % 256 >>

\* The two bytes of one Int16 element in the array's buffer.
int16Bytes(v) == << (v % 65536) % 256, (v % 65536) \div 256 >>

\* new Uint8Array(int16.buffer)
RECURSIVE bufferBytes(_)
bufferBytes(arr) ==
  IF Len(arr) = 0 THEN << >>
  ELSE int16Bytes(arr[1]) \o bufferBytes(Tail(arr))

MimeType == "audio/pcm;rate=16000"

createBlobInt16(samples) ==
  [k \in 1 .. Len(samples) |-> sampleToInt16(samples[k])]

createBlob(samples) ==
  [data |-> encode(bufferBytes(createBlobInt16(samples))),
   mimeType |-> MimeType]

(* --------------------------- decodeAudioData -------------------------- *)
bytesPerSample == 2
DefaultChannels == 1
SampleRate == 48000

Zeros(n) == [k \in 1 .. n |-> IntNum(0)]

NoBuffer == [numberOfChannels |-> 0, length |-> 0, channels |-> << >>]

\* ctx.createBuffer(numberOfChannels, length, sampleRate): the allocator
\* converts length to an unsigned long and returns silent channels.  The
\* allocator is a platform object outside this file; the limits a platform
\* puts on its arguments (a browser refuses a length of 0) are not modelled.
createBuffer(nc, fc) ==
  [numberOfChannels |-> nc,
   length |-> ToIndex(fc),
   channels |-> [c \in 1 .. nc |-> Zeros(ToIndex(fc))]]

\* buffer.copyToChannel(source, channelNumber): copies as many frames as
\* fit, from the start of the channel.
copyToChannel(buf, source, channelNumber) ==
  [buf EXCEPT !.channels[channelNumber + 1] =
     [k \in 1 .. buf.length |->
        IF k <= Len(source) THEN source[k] ELSE @[k]]]

\* A plausible slip: the Int16 view read high byte first.
int16At_bigEndian(bytes, k) == Wrap16(bytes[2 * k - 1] * 256 + bytes[2 * k])

\* Element k (1-based) of an Int16Array view over bytes.
int16At(bytes, k) == Wrap16(bytes[2 * k - 1] + bytes[2 * k] * 256)

\* new Int16Array(data.buffer, data.byteOffset, data.length / 2): the
\* length goes through ToIndex.
Int16View(bytes) ==
  [k \in 1 .. ToIndex(Div(IntNum(Len(bytes)), bytesPerSample)) |->
     int16At(bytes, k)]

\* dataInt16[i] / 32768.0
rescale(v) == Div(IntNum(v), 32768)

toFloat32(arr) == [k \in 1 .. Len(arr) |-> rescale(arr[k])]

\* A plausible slip: planar instead of interleaved indexing.
srcIndex_planar(jj, nc, ii) == ii * nc + jj

\* The index read on line 96.
srcIndex(jj, nc, ii) == jj * nc + ii

\* A typed array read: undefined out of bounds, stored as NaN.
ReadFloat(arr, idx) == IF idx < Len(arr) THEN arr[idx + 1] ELSE NaN
\* A typed array write: ignored out of bounds.
WriteFloat(arr, idx, v) ==
  IF idx < Len(arr) THEN [arr EXCEPT ![idx + 1] = v] ELSE arr

(* ------------------------------ inputs -------------------------------- *)
\* Sample numerators over FloatDen: 0, fractions of one 16-bit step, values
\* just inside +-1.0, +-1.0, 2.0 and -5.0.
SampleNums ==
  {0, 3, -3, FloatDen - 3, 3 - FloatDen, FloatDen, -FloatDen,
   2 * FloatDen, (-5) * FloatDen}
SampleVals == {Fin(q, FloatDen) : q \in SampleNums} \cup {NaN, PosInf, NegInf}

EncodeInputs == SeqsUpTo(EncodeByteVals, MaxEncodeLen)
DecodeInputs == SeqsUpTo(TextVals, MaxTextLen)
BlobInputs == SeqsUpTo(SampleVals, MaxSamples)
AudioInputs == SeqsUpTo(AudioByteVals, MaxBytes)

(* ------------------------------- state -------------------------------- *)
VARIABLES
  pipeline,       \* the calls made so far in this run, each on the result
                  \* of the one before; the functions keep no state, so a
                  \* run is one such chain
  pc,             \* position inside decodeAudioData, "idle" between calls
  encBytes,       \* encode: argument
  encRet,         \* encode: result
  decBase64,      \* decode: argument
  decRet,         \* decode: result
  blobData,       \* createBlob: argument
  int16,          \* createBlob: the Int16Array
  blobRet,        \* createBlob: result
  data,           \* decodeAudioData: argument data
  byteOffset,     \* decodeAudioData: data.byteOffset
  numChannelsArg, \* decodeAudioData: argument numChannels as passed
  numChannels,    \* decodeAudioData: numChannels after line 65-68
  warned,         \* decodeAudioData: console.warn was called
  frameCount,     \* decodeAudioData: line 70
  allocArgs,      \* the arguments createBuffer was called with
  buffer,         \* decodeAudioData: the AudioBuffer
  dataInt16,      \* decodeAudioData: line 81
  dataFloat32,    \* decodeAudioData: line 84-87
  i,              \* decodeAudioData: outer loop index
  j,              \* decodeAudioData: inner loop index
  channelData,    \* decodeAudioData: line 94
  audioRet        \* decodeAudioData: result

encVars == << encBytes, encRet >>
decVars == << decBase64, decRet >>
blobVars == << blobData, int16, blobRet >>
audioVars ==
  << data, byteOffset, numChannelsArg, numChannels, warned, frameCount,
     allocArgs, buffer, dataInt16, dataFloat32, i, j, channelData, audioRet >>
vars == << pipeline, pc, encVars, decVars, blobVars, audioVars >>

Last(s) == s[Len(s)]
NoArgs == [numberOfChannels |-> 0, length |-> IntNum(0), sampleRate |-> 0]

Init ==
  /\ pipeline = << >>
  /\ pc = "idle"
  /\ encBytes = << >> /\ encRet = NoResult
  /\ decBase64 = << >> /\ decRet = NoResult
  /\ blobData = << >> /\ int16 = << >> /\ blobRet = NoResult
  /\ data = << >>
  /\ byteOffset = 0
  /\ numChannelsArg = 0
  /\ numChannels = 0
  /\ warned = FALSE
  /\ frameCount = IntNum(0)
  /\ allocArgs = NoArgs
  /\ buffer = NoBuffer
  /\ dataInt16 = << >>
  /\ dataFloat32 = << >>
  /\ i = 0
  /\ j = 0
  /\ channelData = << >>
  /\ audioRet = NoResult

(* ------------------------------ actions ------------------------------- *)
\* encode(bytes), lines 13-20.
Encode ==
  /\ pc = "idle"
  /\ pipeline = << >>
  /\ \E bytes \in EncodeInputs :
       /\ encBytes' = bytes
       /\ encRet' = Returned(encode(bytes))
  /\ pipeline' = << "encode" >>
  /\ UNCHANGED << pc, decVars, blobVars, audioVars >>

\* createBlob(data), lines 39-51.
CreateBlob ==
  /\ pc = "idle"
  /\ pipeline = << >>
  /\ \E samples \in BlobInputs :
       /\ blobData' = samples
       /\ int16' = createBlobInt16(samples)
       /\ blobRet' = Returned(createBlob(samples))
  /\ pipeline' = << "createBlob" >>
  /\ UNCHANGED << pc, encVars, decVars, audioVars >>

\* decode(base64), lines 25-33, on a text from outside.
Decode ==
  /\ pc = "idle"
  /\ pipeline = << >>
  /\ \E base64 \in DecodeInputs :
       /\ decBase64' = base64
       /\ decRet' = decode(base64)
  /\ pipeline' = << "decode" >>
  /\ UNCHANGED << pc, encVars, blobVars, audioVars >>

\* The transport string in hand: what encode returned or the data field of
\* what createBlob returned.
TransportString ==
  IF Last(pipeline) = "encode" THEN ValueOf(encRet) ELSE ValueOf(blobRet).data

\* decode(base64), lines 25-33, on the transport string in hand.
DecodeTransport ==
  /\ pc = "idle"
  /\ pipeline # << >>
  /\ Last(pipeline) \in {"encode", "createBlob"}
  /\ decBase64' = TransportString
  /\ decRet' = decode(TransportString)
  /\ pipeline' = Append(pipeline, "decode")
  /\ UNCHANGED << pc, encVars, blobVars, audioVars >>

\* What the body of decodeAudioData starts from, lines 56-61.
AudioEntry(d, off, n) ==
  /\ data' = d
  /\ byteOffset' = off
  /\ numChannelsArg' = n
  /\ numChannels' = n
  /\ warned' = FALSE
  /\ frameCount' = IntNum(0)
  /\ allocArgs' = NoArgs
  /\ buffer' = NoBuffer
  /\ dataInt16' = << >>
  /\ dataFloat32' = << >>
  /\ i' = 0
  /\ j' = 0
  /\ channelData' = << >>
  /\ audioRet' = NoResult
  /\ pc' = "alloc"

\* decodeAudioData(data, ctx, sampleRate, numChannels) on bytes from
\* outside; data may be a view at any offset of a larger buffer.
DecodeAudioData ==
  /\ pc = "idle"
  /\ pipeline = << >>
  /\ \E d \in AudioInputs, off \in ByteOffsets, n \in ChannelArgs :
       AudioEntry(d, off, n)
  /\ pipeline' = << "decodeAudioData" >>
  /\ UNCHANGED << encVars, decVars, blobVars >>

\* decodeAudioData on the bytes decode returned (a fresh Uint8Array, at
\* offset 0 of its own buffer, line 28).
DecodeAudioDataDecoded ==
  /\ pc = "idle"
  /\ pipeline # << >>
  /\ Last(pipeline) = "decode"
  /\ ~decRet.threw
  /\ \E n \in ChannelArgs : AudioEntry(ValueOf(decRet), 0, n)
  /\ pipeline' = Append(pipeline, "decodeAudioData")
  /\ UNCHANGED << encVars, decVars, blobVars >>

\* Lines 65-76: the channel count fallback, frameCount, createBuffer.
Alloc ==
  /\ pc = "alloc"
  /\ LET nc == IF numChannels <= 0 THEN DefaultChannels ELSE numChannels
         fc == Div(Div(IntNum(Len(data)), bytesPerSample), nc)
     IN /\ warned' = (numChannels <= 0)
        /\ numChannels' = nc
        /\ frameCount' = fc
        /\ allocArgs' = [numberOfChannels |-> nc, length |-> fc,
                         sampleRate |-> SampleRate]
        /\ buffer' = createBuffer(nc, fc)
  /\ pc' = "view"
  /\ UNCHANGED << pipeline, encVars, decVars, blobVars, data, byteOffset,
                  numChannelsArg, dataInt16, dataFloat32, i, j, channelData,
                  audioRet >>

\* Line 81 throws a RangeError when byteOffset is not a multiple of 2.
ViewThrows ==
  /\ pc = "view"
  /\ byteOffset % bytesPerSample # 0
  /\ audioRet' = Threw("RangeError")
  /\ pc' = "idle"
  /\ UNCHANGED << pipeline, encVars, decVars, blobVars, data, byteOffset,
                  numChannelsArg, numChannels, warned, frameCount, allocArgs,
                  buffer, dataInt16, dataFloat32, i, j, channelData >>

\* Lines 81-87: the Int16 view and its conversion to floats.
View ==
  /\ pc = "view"
  /\ byteOffset % bytesPerSample = 0
  /\ dataInt16' = Int16View(data)
  /\ dataFloat32' = toFloat32(Int16View(data))
  /\ pc' = "branch"
  /\ UNCHANGED << pipeline, encVars, decVars, blobVars, data, byteOffset,
                  numChannelsArg, numChannels, warned, frameCount, allocArgs,
                  buffer, i, j, channelData, audioRet >>

\* Lines 90-91: one channel, the floats are copied as they are.
Passthrough ==
  /\ pc = "branch"
  /\ numChannels = 1
  /\ buffer' = copyToChannel(buffer, dataFloat32, 0)
  /\ pc' = "return"
  /\ UNCHANGED << pipeline, encVars, decVars, blobVars, data, byteOffset,
                  numChannelsArg, numChannels, warned, frameCount, allocArgs,
                  dataInt16, dataFloat32, i, j, channelData, audioRet >>

\* Line 93, i = 0.
EnterLoop ==
  /\ pc = "branch"
  /\ numChannels # 1
  /\ i' = 0
  /\ pc' = "outer"
  /\ UNCHANGED << pipeline, encVars, decVars, blobVars, data, byteOffset,
                  numChannelsArg, numChannels, warned, frameCount, allocArgs,
                  buffer, dataInt16, dataFloat32, j, channelData, audioRet >>

\* Lines 93-95: i < numChannels, a new channelData, j = 0.
OuterStep ==
  /\ pc = "outer"
  /\ i < numChannels
  /\ channelData' = Zeros(ToIndex(frameCount))
  /\ j' = 0
  /\ pc' = "inner"
  /\ UNCHANGED << pipeline, encVars, decVars, blobVars, data, byteOffset,
                  numChannelsArg, numChannels, warned, frameCount, allocArgs,
                  buffer, dataInt16, dataFloat32, i, audioRet >>

\* Lines 95-96: j < frameCount, one sample moved, j++.
InnerStep ==
  /\ pc = "inner"
  /\ Less(IntNum(j), frameCount)
  /\ channelData' =
       WriteFloat(channelData, j,
                  ReadFloat(dataFloat32, srcIndex(j, numChannels, i)))
  /\ j' = j + 1
  /\ UNCHANGED << pipeline, pc, encVars, decVars, blobVars, data, byteOffset,
                  numChannelsArg, numChannels, warned, frameCount, allocArgs,
                  buffer, dataInt16, dataFloat32, i, audioRet >>

\* Line 98: the inner loop is over, the channel is copied, i++.
CopyChannel ==
  /\ pc = "inner"
  /\ ~Less(IntNum(j), frameCount)
  /\ buffer' = copyToChannel(buffer, channelData, i)
  /\ i' = i + 1
  /\ pc' = "outer"
  /\ UNCHANGED << pipeline, encVars, decVars, blobVars, data, byteOffset,
                  numChannelsArg, numChannels, warned, frameCount, allocArgs,
                  dataInt16, dataFloat32, j, channelData, audioRet >>

\* Line 101.
Return ==
  /\ \/ pc = "return"
     \/ pc = "outer" /\ ~(i < numChannels)
  /\ audioRet' = Returned(buffer)
  /\ pc' = "idle"
  /\ UNCHANGED << pipeline, encVars, decVars, blobVars, data, byteOffset,
                  numChannelsArg, numChannels, warned, frameCount, allocArgs,
                  buffer, dataInt16, dataFloat32, i, j, channelData >>

Next ==
  \/ Encode
  \/ CreateBlob
  \/ Decode
  \/ DecodeTransport
  \/ DecodeAudioData
  \/ DecodeAudioDataDecoded
  \/ Alloc
  \/ ViewThrows
  \/ View
  \/ Passthrough
  \/ EnterLoop
  \/ OuterStep
  \/ InnerStep
  \/ CopyChannel
  \/ Return

Spec == Init /\ [][Next]_vars

TypeOK ==
  /\ pc \in {"idle", "alloc", "view", "branch", "outer", "inner", "return"}
  /\ numChannels \in (-1) .. MaxChannels
  /\ pc \notin {"idle", "alloc"} => numChannels >= 1
  /\ \A k \in 1 .. Len(data) : data[k] \in 0 .. 255
  /\ \A k \in 1 .. Len(dataInt16) : dataInt16[k] \in -32768 .. 32767

(* ------------------------- claim vocabulary --------------------------- *)
\* The calls pipeline[1..Len(p)] of this run were exactly p, in order.
Ran(p) == Len(pipeline) >= Len(p) /\ SubSeq(pipeline, 1, Len(p)) = p

\* decodeAudioData is the call in progress or the last one made.
InAudio == pipeline # << >> /\ Last(pipeline) = "decodeAudioData"
\* decodeAudioData has returned its buffer.
AudioReturned == InAudio /\ pc = "idle" /\ audioRet.returned # {}
\* decodeAudioData has ended, by return or by throw.
AudioEnded == InAudio /\ pc = "idle"

\* A finite number as a count of 1 / FloatDen (its den divides FloatDen).
Units(x) == x[2] * (FloatDen \div x[3])
Abs(n) == IF n < 0 THEN -n ELSE n
\* x >= 1.0, x <= -1.0, -1.0 <= x <= 1.0
GeOne(x) == ~IsNaN(x) /\ ~Less(x, IntNum(1))
LeMinusOne(x) == ~IsNaN(x) /\ ~Less(IntNum(-1), x)
InUnitRange(x) == IsFin(x) /\ ~Less(IntNum(1), x) /\ ~Less(x, IntNum(-1))

(* C1: for every byte sequence B, decode(encode(B)) returns B, element for *)
(* element and in length; encode of the empty sequence is the empty string *)
(* and decode of the empty string is the empty byte sequence.              *)
C1_RoundTrip ==
  /\ Ran(<< "encode", "decode" >>) => decRet = Returned(encBytes)
  /\ Ran(<< "encode" >>) /\ encBytes = << >> => encRet = Returned(<< >>)
  /\ Ran(<< "decode" >>) /\ decBase64 = << >> => decRet = Returned(<< >>)

C1_Witness ==
  /\ Ran(<< "encode", "decode" >>)
  /\ Len(encBytes) = 4
  /\ encBytes[1] = 255 /\ encBytes[4] = 165
  /\ decRet = Returned(encBytes)

(* C2: for samples all in [-1, 1], createBlob, then decode of the payload  *)
(* data, then the rescaling of decodeAudioData with one channel, give as   *)
(* many samples as were packed, each within 1/32768 of the original.       *)
C2_QuantizationBound ==
  ( /\ Ran(<< "createBlob", "decode", "decodeAudioData" >>)
    /\ numChannelsArg = 1
    /\ pc \notin {"alloc", "view"}
    /\ \A k \in 1 .. Len(blobData) : InUnitRange(blobData[k]) )
  => /\ Len(dataFloat32) = Len(blobData)
     /\ \A k \in 1 .. Len(blobData) :
          /\ IsFin(dataFloat32[k])
          /\ Abs(Units(blobData[k]) - Units(dataFloat32[k]))
               <= FloatDen \div 32768
     /\ AudioReturned => ValueOf(audioRet).channels[1] = dataFloat32

C2_Witness ==
  /\ Ran(<< "createBlob", "decode", "decodeAudioData" >>)
  /\ numChannelsArg = 1
  /\ AudioReturned
  /\ blobData = << Fin(FloatDen, FloatDen), Fin(3 - FloatDen, FloatDen) >>
  /\ dataFloat32 = << Fin(32767, 32768), Fin(-32767, 32768) >>

(* C3: createBlob saturates: a sample >= 1.0 is stored as 32767, a sample  *)
(* <= -1.0 as -32768, so [2.0] packs as [1.0] and [-5.0] as [-1.0]; every  *)
(* stored value is in -32768..32767 and none is wrapped (a larger sample   *)
(* never gets a smaller stored value).                                     *)
C3_Saturation ==
  Ran(<< "createBlob" >>) =>
    /\ Len(int16) = Len(blobData)
    /\ \A k \in 1 .. Len(blobData) :
         /\ int16[k] \in -32768 .. 32767
         /\ GeOne(blobData[k]) => int16[k] = 32767
         /\ LeMinusOne(blobData[k]) => int16[k] = -32768
    /\ \A k, m \in 1 .. Len(blobData) :
         (~IsNaN(blobData[k]) /\ ~IsNaN(blobData[m])
            /\ Less(blobData[k], blobData[m]))
         => int16[k] <= int16[m]
    /\ blobData = << IntNum(2) >>
         => blobRet = Returned(createBlob(<< IntNum(1) >>))
    /\ blobData = << IntNum(-5) >>
         => blobRet = Returned(createBlob(<< IntNum(-1) >>))

C3_Witness ==
  /\ Ran(<< "createBlob" >>)
  /\ blobData = << Fin(2 * FloatDen, FloatDen), Fin((-5) * FloatDen, FloatDen) >>
  /\ int16 = << 32767, -32768 >>

C5_FrameCountIsFloor ==
  (InAudio /\ pc # "alloc") =>
    /\ IsInteger(frameCount)
    /\ Trunc(frameCount) = (Len(data) \div bytesPerSample) \div numChannels
    /\ allocArgs.length = frameCount

(* C6: when the byte sequence has odd length, decodeAudioData ends in a    *)
(* TruncatedDataError and returns no buffer.                               *)
C6_OddLengthIsError ==
  (AudioEnded /\ Len(data) % bytesPerSample # 0) =>
    /\ audioRet.threw
    /\ audioRet.error = "TruncatedDataError"
    /\ audioRet.returned = {}

(* C7, as claimed: for every text that is not valid standard base64 (a     *)
(* non-alphabet character, or an invalid padding or length), decode throws *)
(* and returns no byte sequence.                                           *)
StandardBase64(t) ==
  /\ Len(t) % 4 = 0
  /\ \E p \in 0 .. 2 :
       /\ p <= Len(t)
       /\ \A k \in 1 .. Len(t) - p : t[k] \in Alphabet
       /\ \A k \in Len(t) - p + 1 .. Len(t) : t[k] = Pad

C7_Symbols(t) == SelectSeq(t, LAMBDA c : c # Space)
C7_Padding(w) ==
  IF Len(w) % 4 = 0 /\ Len(w) > 0 /\ w[Len(w)] = Pad
  THEN IF w[Len(w) - 1] = Pad THEN 2 ELSE 1
  ELSE 0
C7_Rejected(t) ==
  \/ (Len(C7_Symbols(t)) - C7_Padding(C7_Symbols(t))) % 4 = 1
  \/ \E k \in 1 .. Len(C7_Symbols(t)) - C7_Padding(C7_Symbols(t)) :
       C7_Symbols(t)[k] \notin Alphabet

C8_FallbackToOneChannel ==
  (AudioReturned /\ numChannelsArg <= 0) =>
    /\ warned
    /\ allocArgs.numberOfChannels = 1
    /\ IsInteger(frameCount)
    /\ Trunc(frameCount) = Len(dataFloat32)
    /\ ValueOf(audioRet).channels = << dataFloat32 >>

(* C9: the payload data of createBlob for N samples decodes to 2 * N       *)
(* bytes; bytes 2i and 2i+1 are the low and the high byte of the two's     *)
(* complement 16-bit encoding of sample i.                                 *)
C9_Encoded(x) ==
  IF IsNaN(x) THEN 0
  ELSE IF GeOne(x) THEN 32767
  ELSE IF LeMinusOne(x) THEN -32768
  ELSE Trunc(Mul(x, 32768))
C9_TwosComplement(v) == IF v < 0 THEN v + 65536 ELSE v

C9_LittleEndianPayload ==
  Ran(<< "createBlob", "decode" >>) =>
    /\ ~decRet.threw
    /\ decRet.returned # {}
    /\ Len(ValueOf(decRet)) = 2 * Len(blobData)
    /\ \A k \in 1 .. Len(blobData) :
         /\ ValueOf(decRet)[2 * k - 1]
              = C9_TwosComplement(C9_Encoded(blobData[k])) % 256
         /\ ValueOf(decRet)[2 * k]
              = C9_TwosComplement(C9_Encoded(blobData[k])) \div 256

C9_Witness ==
  /\ Ran(<< "createBlob", "decode" >>)
  /\ pc = "idle"
  /\ blobData = << Fin(3 - FloatDen, FloatDen), Fin(FloatDen, FloatDen) >>
  /\ ValueOf(decRet) = << 1, 128, 255, 127 >>

(* C10: every index j * numChannels + i that the de-interleave loop reads  *)
(* is inside the flat sample array, and every index j it writes is inside  *)
(* the channel array.                                                      *)
C10_IndicesInBounds ==
  (InAudio /\ pc = "inner" /\ Less(IntNum(j), frameCount)) =>
    /\ srcIndex(j, numChannels, i) < Len(dataFloat32)
    /\ j < Len(channelData)

====
